---- MODULE Spec2Model ----
(***************************************************************************)
(* TD_print: the TDPrint extension (src/src/tdprint_ext.py) and its        *)
(* Parameter Execute DAT callback (src/src/parameter_execute_dat.py).      *)
(*                                                                         *)
(* Python strings are sequences of one-character strings, so that strip(), *)
(* lower(), split(), str() and int() are computed, not assumed.            *)
(* A host parameter is a record [st, v]: st = "absent" (getattr gives      *)
(* None), "val" (eval() returns v) or "raises" (eval() raises).  A present *)
(* parameter object is true in `if par`, as a plain Python object is;      *)
(* debug logging changes no state and is left out.                         *)
(***************************************************************************)
EXTENDS Integers, Sequences, FiniteSets

\* ------------------------------------------------------------ bounds
MaxJobs == 2
MaxPulses == 2
MaxNames == 2

\* ------------------------------------------------------------ strings
EmptyStr == <<>>
Whitespace == {" ", "\t"}
UpperAlpha == <<"A","B","C","D","E","F","G","H","I","J","K","L","M",
                "N","O","P","Q","R","S","T","U","V","W","X","Y","Z">>
LowerAlpha == <<"a","b","c","d","e","f","g","h","i","j","k","l","m",
                "n","o","p","q","r","s","t","u","v","w","x","y","z">>
DigitChars == <<"0","1","2","3","4","5","6","7","8","9">>

RECURSIVE LStrip(_)
LStrip(s) ==
    IF s = <<>> THEN <<>>
    ELSE IF Head(s) \in Whitespace THEN LStrip(Tail(s)) ELSE s

RECURSIVE RStrip(_)
RStrip(s) ==
    IF s = <<>> THEN <<>>
    ELSE IF s[Len(s)] \in Whitespace THEN RStrip(SubSeq(s, 1, Len(s) - 1)) ELSE s

\* str.strip()
Strip(s) == RStrip(LStrip(s))

LowerChar(c) ==
    IF \E i \in 1..26 : UpperAlpha[i] = c
    THEN LowerAlpha[CHOOSE i \in 1..26 : UpperAlpha[i] = c]
    ELSE c

\* str.lower()
Lower(s) == [i \in 1..Len(s) |-> LowerChar(s[i])]

\* str.startswith(prefix)
StartsWith(s, prefix) ==
    /\ Len(s) >= Len(prefix)
    /\ SubSeq(s, 1, Len(prefix)) = prefix

\* the first whitespace-free run of s (s does not start with whitespace)
RECURSIVE TakeWord(_)
TakeWord(s) ==
    IF s = <<>> \/ Head(s) \in Whitespace THEN <<>>
    ELSE <<Head(s)>> \o TakeWord(Tail(s))

\* str.split(): the maximal whitespace-free runs, in order
RECURSIVE Split(_)
Split(s) ==
    LET t == LStrip(s)
        w == TakeWord(t)
    IN IF t = <<>> THEN <<>>
       ELSE <<w>> \o Split(SubSeq(t, Len(w) + 1, Len(t)))

\* str(n) of a natural number
RECURSIVE NatStr(_)
NatStr(n) ==
    IF n < 10 THEN <<DigitChars[n + 1]>>
    ELSE NatStr(n \div 10) \o <<DigitChars[(n % 10) + 1]>>

\* str(n) of an integer
Str(n) == IF n < 0 THEN <<"-">> \o NatStr(0 - n) ELSE NatStr(n)

IsDigit(c) == \E i \in 1..10 : DigitChars[i] = c
DigitVal(c) == (CHOOSE i \in 1..10 : DigitChars[i] = c) - 1

RECURSIVE DigitsVal(_)
DigitsVal(s) ==
    IF s = <<>> THEN 0
    ELSE 10 * DigitsVal(SubSeq(s, 1, Len(s) - 1)) + DigitVal(s[Len(s)])

\* int(x): x is [t |-> "int", n, s] (an integer n) or [t |-> "str", n, s]
\* (the text s); ok = FALSE is the ValueError of a text that is no integer.
IntOf(x) ==
    IF x.t = "int" THEN [ok |-> TRUE, n |-> x.n]
    ELSE LET t == Strip(x.s)
             signed == t # <<>> /\ Head(t) \in {"-", "+"}
             digits == IF signed THEN Tail(t) ELSE t
             good == digits # <<>> /\ \A i \in 1..Len(digits) : IsDigit(digits[i])
         IN IF ~good THEN [ok |-> FALSE, n |-> 0]
            ELSE [ok |-> TRUE,
                  n |-> IF signed /\ Head(t) = "-" THEN 0 - DigitsVal(digits)
                        ELSE DigitsVal(digits)]

IntV(n) == [t |-> "int", n |-> n, s |-> <<>>]
StrV(s) == [t |-> "str", n |-> 0, s |-> s]

\* ------------------------------------------------------------ literals
S_refresh == <<"(","r","e","f","r","e","s","h",")">>
S_auto == <<"a","u","t","o">>
S_portrait == <<"p","o","r","t","r","a","i","t">>
S_landscape == <<"l","a","n","d","s","c","a","p","e">>
S_lp == <<"l","p">>
S_d == <<"-","d">>
S_n == <<"-","n">>
S_o == <<"-","o">>
S_fill == <<"p","r","i","n","t","-","s","c","a","l","i","n","g","=","f","i","l","l">>
S_fit == <<"f","i","t","-","t","o","-","p","a","g","e">>
S_landscape_false == S_landscape \o <<"=","f","a","l","s","e">>
S_mspaint == <<"m","s","p","a","i","n","t",".","e","x","e">>
S_pt == <<"/","p","t">>
S_rundll32 == <<"r","u","n","d","l","l","3","2",".","e","x","e">>
S_dll_entry == <<"P","h","o","t","o","V","i","e","w","e","r",".","d","l","l",",",
                 "I","m","a","g","e","V","i","e","w","_","P","r","i","n","t","T","o">>
S_printer_sp == <<"p","r","i","n","t","e","r"," ">>

\* tempfile.mkstemp(suffix='.png', prefix='tdprint_'): the n-th name of the pool
TmpPath(n) == <<"t","d","p","r","i","n","t","_">> \o NatStr(n) \o <<".","p","n","g">>
TmpPaths == {TmpPath(n) : n \in 1..MaxNames}
NoPath == <<>>

\* ------------------------------------------------------------ host parameters
Absent(v) == [st |-> "absent", v |-> v]
Val(v) == [st |-> "val", v |-> v]
Raises(v) == [st |-> "raises", v |-> v]

\* `if par`: getattr(..., None) gave a parameter object
Truthy(par) == par.st # "absent"

\* ------------------------------------------------------------ TDPrint.Print
Max(a, b) == IF a >= b THEN a ELSE b

\* ResolveTop without the `top is None` outcome
ResolveTop_Always(w) == "top"

\* The upstream TOP of input 0: inputOP(0) when the owner has it, else inputs[0];
\* an exception of the lookup leaves no TOP.  w = [inputOP, inputs].
ResolveTop(w) ==
    IF w.inputOP = "raise" THEN "none"
    ELSE LET viaInputOP == IF w.inputOP = "top" THEN "top" ELSE "none"
         IN IF viaInputOP = "none" /\ w.inputs = "top" THEN "top" ELSE viaInputOP

\* _save_top_to_temp_png without the `if not ok` return
save_top_to_temp_png_IgnoresOk(sv, path, rmOk) ==
    CASE sv = "mkstemp_raise" ->
           [ret |-> NoPath, created |-> NoPath, removed |-> FALSE, left |-> FALSE]
      [] sv \in {"ok", "false"} ->
           [ret |-> path, created |-> path, removed |-> FALSE, left |-> TRUE]
      [] OTHER ->
           [ret |-> NoPath, created |-> path, removed |-> FALSE, left |-> TRUE]

\* _save_top_to_temp_png: sv is what mkstemp and top.save do ("ok", "false":
\* save returns a false value, "raise": save raises, "mkstemp_raise"); path is
\* the fresh name mkstemp picks; rmOk whether os.remove succeeds.
\* ret: the returned path (NoPath for None); created: the file mkstemp made;
\* removed: os.remove was attempted on it; left: the file is still on disk.
save_top_to_temp_png(sv, path, rmOk) ==
    CASE sv = "mkstemp_raise" ->
           [ret |-> NoPath, created |-> NoPath, removed |-> FALSE, left |-> FALSE]
      [] sv = "ok" ->
           [ret |-> path, created |-> path, removed |-> FALSE, left |-> TRUE]
      [] sv = "false" ->
           [ret |-> NoPath, created |-> path, removed |-> TRUE, left |-> ~rmOk]
      [] OTHER ->
           [ret |-> NoPath, created |-> path, removed |-> FALSE, left |-> TRUE]

\* printerlist_val
printerlist_val_of(p) ==
    IF Truthy(p.Printerlist) THEN p.Printerlist.v ELSE EmptyStr

\* printer, a typed name winning over the menu
printer_of_TypedWins(p) ==
    LET typed == IF Truthy(p.Printer) THEN Strip(p.Printer.v) ELSE EmptyStr
        sel == printerlist_val_of(p)
    IN IF typed # EmptyStr THEN typed
       ELSE IF sel # EmptyStr /\ sel # S_refresh THEN sel ELSE typed

\* printer
printer_of(p) ==
    LET typed == IF Truthy(p.Printer) THEN Strip(p.Printer.v) ELSE EmptyStr
        sel == printerlist_val_of(p)
    IN IF sel # EmptyStr /\ sel # S_refresh THEN sel ELSE typed

\* copies without max(1, copies)
copies_of_NoClamp(p) ==
    IF Truthy(p.Copies) THEN IntOf(p.Copies.v).n ELSE 1

\* copies
copies_of(p) ==
    LET c == IF Truthy(p.Copies) THEN IntOf(p.Copies.v).n ELSE 1
    IN Max(1, c)

\* fit_to_page
fit_to_page_of(p) == IF Truthy(p.Fittopage) THEN p.Fittopage.v ELSE TRUE

\* fill_to_page
fill_to_page_of(p) == IF Truthy(p.Filltopage) THEN p.Filltopage.v ELSE FALSE

\* orientation
orientation_of(p) ==
    LET o == IF Truthy(p.Orientation) THEN Lower(Strip(p.Orientation.v)) ELSE S_auto
    IN IF o \notin {S_auto, S_portrait, S_landscape} THEN S_auto ELSE o

\* The arguments of the worker thread.
JobArgs(path, p) ==
    [image_path |-> path, printer |-> printer_of(p), copies |-> copies_of(p),
     fit_to_page |-> fit_to_page_of(p), fill_to_page |-> fill_to_page_of(p),
     orientation |-> orientation_of(p)]

NoArgs ==
    [image_path |-> NoPath, printer |-> EmptyStr, copies |-> 1,
     fit_to_page |-> TRUE, fill_to_page |-> FALSE, orientation |-> S_auto]

\* The job parameters Print evaluates after the save, in the order it does.
ParamOrder == <<"Printer", "Copies", "Fittopage", "Filltopage", "Orientation">>

\* evaluating parameter nm raises: eval() itself, or int() of a Copies value
EvalRaises(p, nm) ==
    \/ p[nm].st = "raises"
    \/ nm = "Copies" /\ p[nm].st = "val" /\ ~IntOf(p[nm].v).ok

\* the position in ParamOrder of the first evaluation that raises, 0 if none
FirstRaise(p) ==
    IF \E i \in 1..Len(ParamOrder) : EvalRaises(p, ParamOrder[i])
    THEN CHOOSE i \in 1..Len(ParamOrder) :
            /\ EvalRaises(p, ParamOrder[i])
            /\ \A k \in 1..(i - 1) : ~EvalRaises(p, ParamOrder[k])
    ELSE 0

RECURSIVE ParamEvents(_, _, _)
ParamEvents(p, i, last) ==
    IF i > last THEN <<>>
    ELSE (IF Truthy(p[ParamOrder[i]]) THEN <<ParamOrder[i]>> ELSE <<>>)
         \o ParamEvents(p, i + 1, last)

PrintOutcome(events, result, ret, env, save, sv, started, args) ==
    [events |-> events, result |-> result, ret |-> ret,
     wiring |-> env.wiring, save |-> save,
     created |-> sv.created, removed |-> sv.removed, left |-> sv.left,
     started |-> started, args |-> args]

NoSave == [ret |-> NoPath, created |-> NoPath, removed |-> FALSE, left |-> FALSE]

\* TDPrint.Print() on host parameters p and what the host does in this call:
\* env = [wiring, save, path, rmOk, start].  events lists the host calls in the
\* order made: a parameter's name for its eval(), "resolve", "save", "start".
\* wiring and save record what the host did: the input wiring, and what the
\* save call did ("none" when Print() never made it).
TDPrint_Print(p, env) ==
    LET ev0 == IF Truthy(p.Printerlist) THEN <<"Printerlist">> ELSE <<>>
        top == ResolveTop(env.wiring)
        ev1 == ev0 \o <<"resolve">>
        sv == save_top_to_temp_png(env.save, env.path, env.rmOk)
        ev2 == ev1 \o <<"save">>
        k == FirstRaise(p)
        ev3 == ev2 \o ParamEvents(p, 1, IF k = 0 THEN Len(ParamOrder) ELSE k)
        ev4 == ev3 \o <<"start">>
    IN IF p.Printerlist.st = "raises"
       THEN PrintOutcome(ev0, "raised", "None", env, "none", NoSave, FALSE, NoArgs)
       ELSE IF top = "none"
       THEN PrintOutcome(ev1, "returned", "None", env, "none", NoSave, FALSE, NoArgs)
       ELSE IF sv.ret = NoPath
       THEN PrintOutcome(ev2, "returned", "None", env, env.save, sv, FALSE, NoArgs)
       ELSE IF k # 0
       THEN PrintOutcome(ev3, "raised", "None", env, env.save, sv, FALSE, NoArgs)
       ELSE IF env.start = "raise"
       THEN PrintOutcome(ev4, "raised", "None", env, env.save, sv, FALSE, NoArgs)
       ELSE PrintOutcome(ev4, "returned", "True", env, env.save, sv, TRUE,
                         JobArgs(sv.ret, p))

NoWiring == [inputOP |-> "absent", inputs |-> "empty"]

NoPrint ==
    PrintOutcome(<<>>, "returned", "None", [wiring |-> NoWiring], "none", NoSave,
                 FALSE, NoArgs)

\* ------------------------------------------------------------ printer enumeration
\* plat = [sys_platform, system]: sys.platform and platform.system().lower()
IsMac(plat) ==
    plat.sys_platform = "darwin" \/ plat.system = "darwin" \/ plat.system = "mac"

IsWindows(plat) == ~IsMac(plat) /\ plat.system = "windows"

\* The loop over the lines of `lpstat -p`: a line starting "printer " adds its
\* second word; a line with no second word raises (IndexError) and ends the
\* loop with the names appended so far.
RECURSIVE ParseLpstat(_, _)
ParseLpstat(lines, printers) ==
    IF lines = <<>> THEN [printers |-> printers, failed |-> FALSE]
    ELSE LET line == Head(lines)
         IN IF StartsWith(line, S_printer_sp)
            THEN IF Len(Split(line)) < 2
                 THEN [printers |-> printers, failed |-> TRUE]
                 ELSE ParseLpstat(Tail(lines), Append(printers, Split(line)[2]))
            ELSE ParseLpstat(Tail(lines), printers)

\* The Windows loops: every line stripped, the non-empty ones kept.
RECURSIVE ParseNames(_)
ParseNames(lines) ==
    IF lines = <<>> THEN <<>>
    ELSE (IF Strip(Head(lines)) # <<>> THEN <<Strip(Head(lines))>> ELSE <<>>)
         \o ParseNames(Tail(lines))

\* The try block of _refresh_printer_list.  en.lpstat, en.wmic, en.ps are what
\* the command gives: [ok, lines].  failed: an exception reached the handler
\* of line 156.
Enumerate(plat, en) ==
    IF IsWindows(plat)
    THEN IF en.wmic.ok
         THEN [printers |-> ParseNames(IF en.wmic.lines = <<>> THEN <<>>
                                       ELSE Tail(en.wmic.lines)),
               failed |-> FALSE]
         ELSE IF en.ps.ok
         THEN [printers |-> ParseNames(en.ps.lines), failed |-> FALSE]
         ELSE [printers |-> <<>>, failed |-> TRUE]
    ELSE IF en.lpstat.ok
         THEN ParseLpstat(en.lpstat.lines, <<>>)
         ELSE [printers |-> <<>>, failed |-> TRUE]

\* _refresh_printer_list on the selector s = [menuNames, menuLabels] and the
\* Printerlist parameter pl.  en.write: "ok"; "val_raises" (setting val raises,
\* menuIndex = 1 selects the same entry); "val_idx_raise" (both raise);
\* "menu_raises" (setting menuNames raises).
refresh_printer_list(plat, en, s, pl) ==
    LET e == Enumerate(plat, en)
        menuNames == <<S_refresh>> \o e.printers
        menuLabels == <<S_refresh>> \o e.printers
        wrote == Truthy(pl) /\ en.write # "menu_raises"
        selects == wrote /\ e.printers # <<>> /\ en.write # "val_idx_raise"
    IN [failed |-> e.failed,
        printers |-> e.printers,
        wrote |-> wrote,
        sel |-> IF wrote THEN [menuNames |-> menuNames, menuLabels |-> menuLabels]
                ELSE s,
        par |-> IF selects
                THEN [pl EXCEPT !.v = IF en.write = "ok" THEN e.printers[1]
                                      ELSE menuNames[2]]
                ELSE pl]

NoRefresh ==
    [failed |-> FALSE, printers |-> <<>>, wrote |-> FALSE,
     sel |-> [menuNames |-> <<>>, menuLabels |-> <<>>], par |-> Absent(EmptyStr)]

\* ------------------------------------------------------------ OS commands
\* the lp command line with `if fit_to_page` tested before `fill_to_page`
lp_command_FitFirst(a) ==
    <<S_lp>>
    \o (IF a.printer # EmptyStr THEN <<S_d, a.printer>> ELSE <<>>)
    \o (IF a.copies # 0 /\ a.copies > 1 THEN <<S_n, Str(a.copies)>> ELSE <<>>)
    \o (IF a.fit_to_page THEN <<S_o, S_fit>>
        ELSE IF a.fill_to_page THEN <<S_o, S_fill>> ELSE <<>>)
    \o (IF a.orientation = S_landscape THEN <<S_o, S_landscape>>
        ELSE IF a.orientation = S_portrait THEN <<S_o, S_landscape_false>>
        ELSE <<>>)
    \o <<a.image_path>>

\* _print_macos: the lp command line
lp_command(a) ==
    <<S_lp>>
    \o (IF a.printer # EmptyStr THEN <<S_d, a.printer>> ELSE <<>>)
    \o (IF a.copies # 0 /\ a.copies > 1 THEN <<S_n, Str(a.copies)>> ELSE <<>>)
    \o (IF a.fill_to_page THEN <<S_o, S_fill>>
        ELSE IF a.fit_to_page THEN <<S_o, S_fit>> ELSE <<>>)
    \o (IF a.orientation = S_landscape THEN <<S_o, S_landscape>>
        ELSE IF a.orientation = S_portrait THEN <<S_o, S_landscape_false>>
        ELSE <<>>)
    \o <<a.image_path>>

\* run_once: the mspaint command line
mspaint_command(a) ==
    IF a.printer # EmptyStr THEN <<S_mspaint, S_pt, a.image_path, a.printer>>
    ELSE <<S_mspaint, S_pt, a.image_path>>

\* run_once: the Photo Viewer fallback command line
rundll_command(a) ==
    <<S_rundll32, S_dll_entry, a.image_path>>
    \o (IF a.printer # EmptyStr THEN <<a.printer>> ELSE <<>>)

\* range(max(1, copies)) of _print_windows
Rounds(a) == Max(1, a.copies)

\* ------------------------------------------------------------ state
VARIABLES
    plat,     \* [sys_platform, system] of the machine
    par,      \* the owner COMP's custom parameters, by name
    sel,      \* the Printerlist menu: [menuNames, menuLabels]
    inited,   \* TDPrint.__init__ has run
    files,    \* the temporary files on disk (paths)
    jobs,     \* the print jobs whose worker thread was started, in order
    npulse,   \* entry-point calls handled so far
    last      \* the latest entry-point call: what it did and how it ended

vars == <<plat, par, sel, inited, files, jobs, npulse, last>>

\* ------------------------------------------------------------ inputs
N_Office == <<"O","f","f","i","c","e">>
N_Lab == <<"L","a","b">>
N_OfficePadded == <<" ">> \o N_Office \o <<" ">>
O_Landscape == <<" ","L","a","n","d","s","c","a","p","e">>
O_PORTRAIT == <<"P","O","R","T","R","A","I","T","\t">>
O_sideways == <<"s","i","d","e","w","a","y","s">>

Plats ==
    {[sys_platform |-> "darwin", system |-> "darwin"],
     [sys_platform |-> "win32", system |-> "windows"],
     [sys_platform |-> "linux", system |-> "linux"]}

ParRecord(pl, pr, co, fi, fl, orn) ==
    [Printerlist |-> pl, Printer |-> pr, Copies |-> co,
     Fittopage |-> fi, Filltopage |-> fl, Orientation |-> orn]

\* parameter settings of the whole-system specification
SysPar(pl, co) ==
    ParRecord(pl, Val(N_OfficePadded), co, Val(TRUE), Val(FALSE), Val(O_Landscape))

SysPars ==
    {SysPar(Val(N_Lab), Val(IntV(2))),
     SysPar(Absent(EmptyStr), Val(StrV(<<"x">>))),
     SysPar(Raises(EmptyStr), Val(IntV(2)))}

\* parameter settings of the Print() specification
PrintPars ==
    {SysPar(Val(N_Lab), Val(IntV(1))),
     SysPar(Absent(EmptyStr), Val(StrV(<<"x">>))),
     SysPar(Raises(EmptyStr), Val(IntV(1)))}

\* parameter settings of the concurrent-jobs specification
JobPars == {SysPar(Val(N_Lab), Val(IntV(2)))}

\* parameter settings of the parameter-marshalling specification
WidePars ==
    {ParRecord(pl, pr, co, fi, fl, orn) :
        pl \in {Absent(EmptyStr), Val(EmptyStr), Val(S_refresh), Val(N_Lab)},
        pr \in {Absent(EmptyStr), Val(<<"\t">>), Val(N_OfficePadded)},
        co \in {Absent(IntV(1)), Val(IntV(-1)), Val(IntV(0)), Val(IntV(1)),
                Val(IntV(3)), Val(IntV(12)), Val(StrV(<<" ","2">>))},
        fi \in {Absent(TRUE), Val(TRUE), Val(FALSE)},
        fl \in {Absent(FALSE), Val(TRUE), Val(FALSE)},
        orn \in {Absent(S_auto), Val(S_auto), Val(O_Landscape), Val(O_PORTRAIT),
                 Val(O_sideways), Val(EmptyStr)}}

\* parameter settings of the Windows specification
WinPars ==
    {ParRecord(pl, Val(N_OfficePadded), co, Val(TRUE), Val(FALSE), Val(O_Landscape)) :
        pl \in {Val(EmptyStr), Val(N_Lab)},
        co \in {Absent(IntV(1)), Val(IntV(-1)), Val(IntV(1)), Val(IntV(2)), Val(IntV(3))}}

\* input wirings that give Print() a TOP, and that give it none
WiringsTop ==
    {[inputOP |-> "top", inputs |-> "empty"],
     [inputOP |-> "absent", inputs |-> "top"]}

WiringsNone ==
    {[inputOP |-> "none", inputs |-> "empty"],
     [inputOP |-> "raise", inputs |-> "top"]}

PrintEnv(w, sv, pa, rm, st) ==
    [wiring |-> w, save |-> sv, path |-> pa, rmOk |-> rm, start |-> st]

\* what the host and the OS may do during one Print(); mkstemp picks a name
\* that is not on disk
PrintEnvs ==
    {PrintEnv(w, "ok", pa, TRUE, "ok") : w \in WiringsNone, pa \in TmpPaths \ files}
    \cup {PrintEnv(w, "ok", pa, TRUE, st) :
        w \in WiringsTop, pa \in TmpPaths \ files, st \in {"ok", "raise"}}
    \cup {PrintEnv(w, "false", pa, rm, "ok") :
        w \in WiringsTop, pa \in TmpPaths \ files, rm \in BOOLEAN}
    \cup {PrintEnv(w, sv, pa, TRUE, "ok") :
        w \in WiringsTop, pa \in TmpPaths \ files, sv \in {"raise", "mkstemp_raise"}}

\* a Print() in which the host and the OS raise nothing
QuietPrintEnvs ==
    {PrintEnv([inputOP |-> "top", inputs |-> "empty"], "ok", pa, TRUE, "ok") :
        pa \in TmpPaths \ files}

\* a Print() that reaches the save, which succeeds or returns a false value
JobPrintEnvs ==
    QuietPrintEnvs
    \cup {PrintEnv([inputOP |-> "top", inputs |-> "empty"], "false", pa, rm, "ok") :
            pa \in TmpPaths \ files, rm \in BOOLEAN}

L_A == S_printer_sp \o <<"A"," ","i","d","l","e">>
L_B == S_printer_sp \o <<"B">>
L_noname == S_printer_sp
L_other == <<"s","c","h","e","d","u","l","e","r">>
W_header == <<"N","a","m","e"," "," ">>
W_A == <<"A"," "," ">>
W_blank == <<" "," ">>

CmdFails == [ok |-> FALSE, lines |-> <<>>]
CmdGives(lines) == [ok |-> TRUE, lines |-> lines]

EnumEnv(lp, wm, ps, wr) == [lpstat |-> lp, wmic |-> wm, ps |-> ps, write |-> wr]

Writes == {"ok", "val_raises", "val_idx_raise", "menu_raises"}

\* what the OS and the host may do during one _refresh_printer_list()
EnumEnvs ==
    IF IsWindows(plat)
    THEN {EnumEnv(CmdFails, wm, ps, wr) :
            wm \in {CmdFails, CmdGives(<<W_header, W_A, W_blank>>)},
            ps \in {CmdFails, CmdGives(<<W_blank, <<"B">> >>)},
            wr \in Writes}
    ELSE {EnumEnv(lp, CmdFails, CmdFails, wr) :
            lp \in {CmdFails, CmdGives(<<L_other, L_A>>),
                    CmdGives(<<L_B, L_noname, L_A>>)},
            wr \in Writes}

\* ------------------------------------------------------------ entry points
LastRefresh(rf) == [failed |-> rf.failed, printers |-> rf.printers, wrote |-> rf.wrote]

NoLastRefresh == LastRefresh(NoRefresh)

\* what a call of Print() did, without the worker's arguments
LastPrint(pr) ==
    [events |-> pr.events, result |-> pr.result, ret |-> pr.ret,
     wiring |-> pr.wiring, save |-> pr.save,
     created |-> pr.created, removed |-> pr.removed, left |-> pr.left,
     started |-> pr.started]

NoLastPrint == LastPrint(NoPrint)

LastCall(entry, name, pr, rf, result) ==
    [entry |-> entry, name |-> name, pr |-> pr, rf |-> rf, result |-> result]

NewJob(pr) ==
    [args |-> pr.args, pulse |-> npulse + 1, raw |-> par, pc |-> "started",
     round |-> 0, cmds |-> <<>>, rmCount |-> 0, rmTarget |-> NoPath]

\* how a call of the entry point ends when Print() ended pr.result: the DAT's
\* onPulse wraps the call in try/except Exception, TDPrint.onPulse and a
\* script's Print() do not
EntryResult(entry, pr) == IF entry = "dat" THEN "returned" ELSE pr.result

\* one call of Print() through entry point `entry`, the host behaving as one
\* of envs
DoPrint(entry, envs) ==
    /\ inited
    /\ npulse < MaxPulses
    /\ Len(jobs) < MaxJobs
    /\ \E env \in envs :
        LET pr == TDPrint_Print(par, env)
        IN /\ files' = IF pr.created # NoPath /\ pr.left
                       THEN files \cup {pr.created} ELSE files
           /\ jobs' = IF pr.started THEN Append(jobs, NewJob(pr)) ELSE jobs
           /\ last' = LastCall(entry, "Print", LastPrint(pr), NoLastRefresh, EntryResult(entry, pr))
    /\ npulse' = npulse + 1
    /\ UNCHANGED <<plat, par, sel, inited>>

\* one call of _refresh_printer_list() through entry point `entry`, the OS
\* and the host behaving as one of envs
DoRefresh(entry, envs) ==
    /\ \E en \in envs :
        LET rf == refresh_printer_list(plat, en, sel, par.Printerlist)
        IN /\ sel' = rf.sel
           /\ par' = [par EXCEPT !.Printerlist = rf.par]
           /\ last' = LastCall(entry, "Refreshprinters", NoLastPrint, LastRefresh(rf), "returned")
    /\ UNCHANGED <<plat, files, jobs>>

\* TDPrint.__init__
Construct ==
    /\ ~inited
    /\ inited' = TRUE
    /\ DoRefresh("init", EnumEnvs)
    /\ UNCHANGED npulse

\* TDPrint.__init__ on a machine whose printer query fails
ConstructNoPrinters ==
    /\ ~inited
    /\ inited' = TRUE
    /\ DoRefresh("init", {EnumEnv(CmdFails, CmdFails, CmdFails, "ok")})
    /\ UNCHANGED npulse

\* parameter_execute_dat.onPulse(par), par.name = "Print"
DatPrint == DoPrint("dat", PrintEnvs)

\* parameter_execute_dat.onPulse(par), par.name = "Refreshprinters"
DatRefresh ==
    /\ inited
    /\ npulse < MaxPulses
    /\ npulse' = npulse + 1
    /\ DoRefresh("dat", EnumEnvs)
    /\ UNCHANGED inited

\* TDPrint.onPulse(par), par.name = "Print"
ExtPrint == DoPrint("ext", PrintEnvs)

\* TDPrint.onPulse(par), par.name = "Refreshprinters"
ExtRefresh ==
    /\ inited
    /\ npulse < MaxPulses
    /\ npulse' = npulse + 1
    /\ DoRefresh("ext", EnumEnvs)
    /\ UNCHANGED inited

\* either onPulse with any other parameter name: nothing is done
OtherPulse ==
    /\ inited
    /\ npulse < MaxPulses
    /\ npulse' = npulse + 1
    /\ \E entry \in {"dat", "ext"} :
        last' = LastCall(entry, "Other", NoLastPrint, NoLastRefresh, "returned")
    /\ UNCHANGED <<plat, par, sel, inited, files, jobs>>

\* TDPrint.Print() called from a script
ScriptPrint == DoPrint("script", PrintEnvs)

\* the first TDPrint.Print() called from a script, the host raising nothing
QuietPrint ==
    /\ Len(jobs) = 0
    /\ DoPrint("script", QuietPrintEnvs)

\* TDPrint.Print() called from a script, the save succeeding or returning a
\* false value
JobPrint == DoPrint("script", JobPrintEnvs)

\* ------------------------------------------------------------ the worker thread
Issue(j, argv, ok, pc, round) ==
    jobs' = [jobs EXCEPT ![j].cmds = Append(@, [argv |-> argv, ok |-> ok]),
                         ![j].pc = pc, ![j].round = round]

AfterRound(j) ==
    IF jobs[j].round + 1 >= Rounds(jobs[j].args) THEN "cleanup" ELSE "round"

\* _print_worker -> _print_macos / _print_posix: subprocess.run(lp ...)
WorkerLp(j) ==
    /\ jobs[j].pc = "started"
    /\ ~IsWindows(plat)
    /\ \E ok \in BOOLEAN : Issue(j, lp_command(jobs[j].args), ok, "cleanup", 0)
    /\ UNCHANGED <<plat, par, sel, inited, files, npulse, last>>

\* _print_worker -> _print_windows -> run_once: subprocess.run(mspaint ...)
WorkerMspaint(j) ==
    /\ jobs[j].pc \in {"started", "round"}
    /\ IsWindows(plat)
    /\ \/ Issue(j, mspaint_command(jobs[j].args), TRUE, AfterRound(j), jobs[j].round + 1)
       \/ Issue(j, mspaint_command(jobs[j].args), FALSE, "fallback", jobs[j].round)
    /\ UNCHANGED <<plat, par, sel, inited, files, npulse, last>>

\* run_once whose failed fallback ends the loop over the copies
WorkerFallback_StopsOnFailure(j) ==
    /\ jobs[j].pc = "fallback"
    /\ \/ Issue(j, rundll_command(jobs[j].args), TRUE, AfterRound(j), jobs[j].round + 1)
       \/ Issue(j, rundll_command(jobs[j].args), FALSE, "cleanup", jobs[j].round + 1)
    /\ UNCHANGED <<plat, par, sel, inited, files, npulse, last>>

\* run_once after mspaint failed: subprocess.run(rundll32 ...)
WorkerFallback(j) ==
    /\ jobs[j].pc = "fallback"
    /\ \E ok \in BOOLEAN :
        Issue(j, rundll_command(jobs[j].args), ok, AfterRound(j), jobs[j].round + 1)
    /\ UNCHANGED <<plat, par, sel, inited, files, npulse, last>>

\* the removal not held back until the submission has returned
WorkerCleanup_Early(j) ==
    /\ jobs[j].pc \in {"started", "cleanup"}
    /\ jobs' = [jobs EXCEPT ![j].pc = "done", ![j].rmCount = @ + 1,
                            ![j].rmTarget = jobs[j].args.image_path]
    /\ \E ok \in BOOLEAN :
        files' = IF ok THEN files \ {jobs[j].args.image_path} ELSE files
    /\ UNCHANGED <<plat, par, sel, inited, npulse, last>>

\* the finally block of _print_worker: time.sleep(2.0), os.remove(image_path)
WorkerCleanup(j) ==
    /\ jobs[j].pc = "cleanup"
    /\ jobs' = [jobs EXCEPT ![j].pc = "done", ![j].rmCount = @ + 1,
                            ![j].rmTarget = jobs[j].args.image_path]
    /\ \E ok \in BOOLEAN :
        files' = IF ok THEN files \ {jobs[j].args.image_path} ELSE files
    /\ UNCHANGED <<plat, par, sel, inited, npulse, last>>

\* ------------------------------------------------------------ specifications
InitWith(pars, plats) ==
    /\ plat \in plats
    /\ par \in pars
    /\ sel = [menuNames |-> <<>>, menuLabels |-> <<>>]
    /\ inited = FALSE
    /\ files = {}
    /\ jobs = <<>>
    /\ npulse = 0
    /\ last = LastCall("none", "", NoLastPrint, NoLastRefresh, "returned")

Init == InitWith(SysPars, Plats)

Next ==
    \/ Construct
    \/ DatPrint
    \/ DatRefresh
    \/ ExtPrint
    \/ ExtRefresh
    \/ OtherPulse
    \/ ScriptPrint
    \/ \E j \in 1..Len(jobs) : WorkerLp(j)
    \/ \E j \in 1..Len(jobs) : WorkerMspaint(j)
    \/ \E j \in 1..Len(jobs) : WorkerFallback(j)
    \/ \E j \in 1..Len(jobs) : WorkerCleanup(j)

Spec == Init /\ [][Next]_vars

\* Print() through both onPulse entry points, with every outcome of the host
\* calls it makes, and the workers it starts.
InitPrint == InitWith(PrintPars, Plats)

NextPrint ==
    \/ ConstructNoPrinters
    \/ DatPrint
    \/ ExtPrint
    \/ \E j \in 1..Len(jobs) : WorkerLp(j)
    \/ \E j \in 1..Len(jobs) : WorkerMspaint(j)
    \/ \E j \in 1..Len(jobs) : WorkerFallback(j)
    \/ \E j \in 1..Len(jobs) : WorkerCleanup(j)

SpecPrint == InitPrint /\ [][NextPrint]_vars

\* Concurrent print jobs on every platform branch.
InitJobs == InitWith(JobPars, Plats)

NextJobs ==
    \/ ConstructNoPrinters
    \/ JobPrint
    \/ \E j \in 1..Len(jobs) : WorkerLp(j)
    \/ \E j \in 1..Len(jobs) : WorkerMspaint(j)
    \/ \E j \in 1..Len(jobs) : WorkerFallback(j)
    \/ \E j \in 1..Len(jobs) : WorkerCleanup(j)

SpecJobs == InitJobs /\ [][NextJobs]_vars

\* Parameter marshalling and the lp command line: every setting of the
\* parameters, one job, macOS and the POSIX fallback.
InitParams ==
    InitWith(WidePars, {pl \in Plats : ~IsWindows(pl)})

NextParams ==
    \/ ConstructNoPrinters
    \/ QuietPrint
    \/ \E j \in 1..Len(jobs) : WorkerLp(j)
    \/ \E j \in 1..Len(jobs) : WorkerCleanup(j)

SpecParams == InitParams /\ [][NextParams]_vars

\* The Windows submission rounds: one job, every copy count.
InitWin ==
    InitWith(WinPars, {pl \in Plats : IsWindows(pl)})

NextWin ==
    \/ ConstructNoPrinters
    \/ QuietPrint
    \/ \E j \in 1..Len(jobs) : WorkerMspaint(j)
    \/ \E j \in 1..Len(jobs) : WorkerFallback(j)
    \/ \E j \in 1..Len(jobs) : WorkerCleanup(j)

SpecWin == InitWin /\ [][NextWin]_vars

\* ------------------------------------------------------------ properties
JobIds == 1..Len(jobs)

IsMspaint(c) == c.argv[1] = S_mspaint
IsRundll(c) == c.argv[1] = S_rundll32

\* the submission rounds of cmds that have ended: mspaint succeeded, or the
\* fallback ran
RoundsEnded(cmds) ==
    Cardinality({i \in 1..Len(cmds) : IsRundll(cmds[i]) \/ cmds[i].ok})

\* the submission routine of job J has returned
Submitted(J) ==
    IF IsWindows(plat)
    THEN /\ RoundsEnded(J.cmds) = Max(1, J.args.copies)
         /\ J.cmds # <<>>
         /\ LET c == J.cmds[Len(J.cmds)] IN IsRundll(c) \/ c.ok
    ELSE Len(J.cmds) = 1

\* C1: every started worker attempts to remove its job's temporary file exactly
\* once, only after the job's submission routine has returned, whatever the OS
\* command's outcome; it removes its own job's file only, and a job whose
\* worker has not yet attempted the removal still has its file on disk under a
\* name no other such job uses.
C1_RemovedOnceAfterSubmission ==
    /\ \A j \in JobIds :
        LET J == jobs[j]
        IN /\ J.rmCount \in {0, 1}
           /\ (J.pc = "done") <=> (J.rmCount = 1)
           /\ J.rmCount = 1 => J.rmTarget = J.args.image_path /\ Submitted(J)
           /\ J.rmCount = 0 => J.rmTarget = NoPath /\ J.args.image_path \in files
    /\ \A j \in JobIds : \A k \in JobIds :
        j # k /\ jobs[j].rmCount = 0 /\ jobs[k].rmCount = 0
            => jobs[j].args.image_path # jobs[k].args.image_path

\* a worker has removed its file after a failed OS command while another
\* job's worker is still submitting
C1_Witness ==
    \E j \in JobIds : \E k \in JobIds :
        /\ j # k
        /\ jobs[j].rmCount = 1
        /\ \E i \in 1..Len(jobs[j].cmds) : ~jobs[j].cmds[i].ok
        /\ jobs[k].pc \in {"started", "round", "fallback"}

\* C2: every entry point returns normally to the host, whatever is raised
\* while the pulse is handled.
C2_NoExceptionEscapes == last.result = "returned"

JobParamNames ==
    {"Printerlist", "Printer", "Copies", "Fittopage", "Filltopage", "Orientation"}

\* the place of a host call in the order the claim gives: resolve, save, the
\* parameter reads, start
RankClaimed(x) ==
    CASE x = "resolve" -> 1
      [] x = "save" -> 2
      [] x \in JobParamNames -> 3
      [] OTHER -> 4

\* the place of a host call in the order of the code: the printer-list
\* selector, resolve, save, the other parameters in turn, start
RankAmended(x) ==
    CASE x = "Printerlist" -> 0
      [] x = "resolve" -> 1
      [] x = "save" -> 2
      [] x = "Printer" -> 3
      [] x = "Copies" -> 4
      [] x = "Fittopage" -> 5
      [] x = "Filltopage" -> 6
      [] x = "Orientation" -> 7
      [] OTHER -> 8

\* the worker is started only by a Print() that resolved, saved successfully
\* and made the start call, and that returns True
StartedAfterSave ==
    last.pr.started =>
        /\ last.pr.save = "ok"
        /\ {"resolve", "save", "start"} \subseteq
               {last.pr.events[i] : i \in 1..Len(last.pr.events)}
        /\ last.pr.ret = "True"
        /\ last.result = "returned"

\* C3 as claimed: Print() resolves the source, saves it, reads the job
\* parameters and starts the worker in this order, and reads no job parameter
\* before the image has been saved.
C3_ClaimedOrder ==
    last.name = "Print" =>
        /\ \A i \in 1..Len(last.pr.events) : \A k \in 1..Len(last.pr.events) :
             i < k => RankClaimed(last.pr.events[i]) <= RankClaimed(last.pr.events[k])
        /\ StartedAfterSave

\* C3: Print() reads the printer-list selector first, then resolves the source,
\* saves it, reads printer name, copies, fit, fill and orientation in turn and
\* starts the worker; no parameter but the selector is read before the save,
\* and the worker is started only after a successful save.
C3_AmendedOrder ==
    last.name = "Print" =>
        /\ \A i \in 1..Len(last.pr.events) : \A k \in 1..Len(last.pr.events) :
             i < k => RankAmended(last.pr.events[i]) < RankAmended(last.pr.events[k])
        /\ StartedAfterSave

\* Print() has returned True after reading the selector and the other
\* parameters, and its worker has not yet issued a command or removed the file
C3_Witness ==
    /\ last.name = "Print"
    /\ last.pr.started
    /\ last.pr.events =
         <<"Printerlist", "resolve", "save", "Printer", "Copies", "Fittopage",
           "Filltopage", "Orientation", "start">>
    /\ \E j \in JobIds :
        /\ jobs[j].pulse = npulse
        /\ jobs[j].pc = "started"
        /\ jobs[j].cmds = <<>>
        /\ jobs[j].rmCount = 0

NoSource(w) == w.inputOP \in {"absent", "none"} /\ w.inputs = "empty"

\* C4: a Print() with no source on input 0, or whose save returns a false
\* value or raises, starts no worker: no job, hence no OS command, belongs to
\* that pulse.
C4_AbortsWithoutImage ==
    (last.name = "Print"
        /\ (NoSource(last.pr.wiring) \/ last.pr.save \in {"false", "raise", "mkstemp_raise"}))
    => /\ ~last.pr.started
       /\ \A j \in JobIds : jobs[j].pulse # npulse

\* a Print() with no source has returned after an earlier pulse's job issued
\* its command
C4_Witness ==
    /\ last.name = "Print"
    /\ NoSource(last.pr.wiring)
    /\ \E j \in JobIds : jobs[j].pulse < npulse /\ jobs[j].cmds # <<>>

\* C5: a refresh whose enumeration fails writes exactly <<"(refresh)">> into
\* the selector, and every written list starts with "(refresh)".
C5_FailureWritesRefreshOnly ==
    (last.name = "Refreshprinters" /\ last.rf.wrote) =>
        /\ sel.menuNames # <<>> /\ sel.menuNames[1] = S_refresh
        /\ last.rf.failed => sel.menuNames = <<S_refresh>>

\* C10: a Print() that created a temporary file has started the worker that
\* will remove it, or has attempted to remove it itself.
C10_NoOrphanFile ==
    (last.name = "Print" /\ last.pr.created # NoPath) =>
        last.pr.started \/ last.pr.removed

Args(c) == {c.argv[i] : i \in 1..Len(c.argv)}

\* the lp command line the claim gives for job J, from the printer name and
\* copy count handed to the worker and the fit, fill and orientation
\* parameters as set
ClaimedLp(J) ==
    LET fit == IF J.raw.Fittopage.st = "absent" THEN TRUE ELSE J.raw.Fittopage.v
        fill == IF J.raw.Filltopage.st = "absent" THEN FALSE ELSE J.raw.Filltopage.v
        o == IF J.raw.Orientation.st = "absent" THEN S_auto
             ELSE Lower(Strip(J.raw.Orientation.v))
    IN <<S_lp>>
       \o (IF Len(J.args.printer) > 0 THEN <<S_d, J.args.printer>> ELSE <<>>)
       \o (IF J.args.copies > 1 THEN <<S_n, Str(J.args.copies)>> ELSE <<>>)
       \o (CASE fill -> <<S_o, S_fill>>
             [] ~fill /\ fit -> <<S_o, S_fit>>
             [] OTHER -> <<>>)
       \o (CASE o = S_landscape -> <<S_o, S_landscape>>
             [] o = S_portrait -> <<S_o, S_landscape_false>>
             [] OTHER -> <<>>)
       \o <<J.args.image_path>>

\* C6: on macOS and the POSIX fallback the one command issued is lp, -d
\* <printer> iff the printer name is non-empty, -n <copies> iff copies > 1,
\* -o print-scaling=fill if fill else -o fit-to-page if fit (never both),
\* -o landscape / -o landscape=false for landscape / portrait and no
\* orientation flag otherwise (an unrecognised value is handed on as auto),
\* then the temporary file's path.
C6_LpCommandLine ==
    \A j \in JobIds :
        LET J == jobs[j]
        IN (~IsWindows(plat) /\ J.cmds # <<>>) =>
            /\ Len(J.cmds) = 1
            /\ J.cmds[1].argv = ClaimedLp(J)
            /\ ~(S_fill \in Args(J.cmds[1]) /\ S_fit \in Args(J.cmds[1]))
            /\ J.raw.Copies = Val(IntV(12)) =>
                 \E i \in 1..Len(J.cmds[1].argv) - 1 :
                    J.cmds[1].argv[i] = S_n /\ J.cmds[1].argv[i + 1] = <<"1", "2">>
            /\ J.raw.Orientation = Val(O_Landscape) => S_landscape \in Args(J.cmds[1])
            /\ J.raw.Orientation = Val(O_PORTRAIT) => S_landscape_false \in Args(J.cmds[1])
            /\ J.raw.Orientation \in {Val(O_sideways), Val(EmptyStr)} =>
                 /\ J.args.orientation = S_auto
                 /\ Args(J.cmds[1]) \cap {S_landscape, S_landscape_false} = {}
            /\ J.cmds[1].argv[Len(J.cmds[1].argv)] = J.args.image_path

\* lp has been issued for 12 copies on a named printer with fit and fill both
\* set and an unrecognised orientation
C6_Witness ==
    \E j \in JobIds :
        /\ jobs[j].raw.Copies = Val(IntV(12))
        /\ jobs[j].raw.Fittopage = Val(TRUE)
        /\ jobs[j].raw.Filltopage = Val(TRUE)
        /\ jobs[j].raw.Orientation = Val(O_sideways)
        /\ jobs[j].args.printer # EmptyStr
        /\ Len(jobs[j].cmds) = 1
        /\ plat.system = "linux"

\* C7: the copy count handed to the worker is at least 1: max(1, Copies) for
\* an integer Copies, and 1 when the parameter is absent.
C7_CopiesAtLeastOne ==
    \A j \in JobIds :
        LET J == jobs[j]
        IN /\ J.args.copies >= 1
           /\ J.raw.Copies.st = "absent" => J.args.copies = 1
           /\ (J.raw.Copies.st = "val" /\ J.raw.Copies.v.t = "int") =>
                J.args.copies = IF J.raw.Copies.v.n < 1 THEN 1 ELSE J.raw.Copies.v.n

\* a worker was started with Copies set to -1
C7_Witness ==
    \E j \in JobIds : jobs[j].raw.Copies = Val(IntV(-1)) /\ jobs[j].pc = "started"

\* the printer-list selector of job J overrides the typed name
SelectorSet(J) ==
    /\ J.raw.Printerlist.st = "val"
    /\ Len(J.raw.Printerlist.v) > 0
    /\ J.raw.Printerlist.v # S_refresh

\* C8: the printer name handed to the worker is the selector's value when that
\* is non-empty and not "(refresh)"; otherwise the typed name without its
\* surrounding whitespace, and the empty string when that is empty or absent.
C8_SelectorOverridesTyped ==
    \A j \in JobIds :
        LET J == jobs[j]
        IN /\ SelectorSet(J) => J.args.printer = J.raw.Printerlist.v
           /\ ~SelectorSet(J) =>
                /\ J.raw.Printer.st = "absent" => J.args.printer = EmptyStr
                /\ J.raw.Printer.st = "val" => J.args.printer = Strip(J.raw.Printer.v)
                /\ J.raw.Printer = Val(N_OfficePadded) => J.args.printer = N_Office
                /\ J.raw.Printer = Val(<<"\t">>) => J.args.printer = EmptyStr

\* workers were started with the selector at "(refresh)" and a padded typed
\* name
C8_Witness ==
    \E j \in JobIds :
        /\ jobs[j].raw.Printerlist = Val(S_refresh)
        /\ jobs[j].raw.Printer = Val(N_OfficePadded)
        /\ jobs[j].args.printer = N_Office

\* C9: on Windows the worker makes max(1, copies) rounds in turn; a round runs
\* mspaint /pt, and the rundll32 fallback once iff that mspaint failed; a round
\* in which both fail does not end the rounds; the file is removed only after
\* the last round.
C9_WindowsRounds ==
    \A j \in JobIds :
        LET J == jobs[j]
            n == Len(J.cmds)
            mspaints == Cardinality({i \in 1..n : IsMspaint(J.cmds[i])})
        IN IsWindows(plat) =>
            /\ \A i \in 1..n :
                /\ IsMspaint(J.cmds[i]) <=> ~IsRundll(J.cmds[i])
                /\ IsMspaint(J.cmds[i]) =>
                     J.cmds[i].argv = <<S_mspaint, S_pt, J.args.image_path>>
                        \o (IF J.args.printer = EmptyStr THEN <<>> ELSE <<J.args.printer>>)
                /\ IsRundll(J.cmds[i]) =>
                     /\ i > 1 /\ IsMspaint(J.cmds[i - 1]) /\ ~J.cmds[i - 1].ok
                     /\ J.cmds[i].argv[3] = J.args.image_path
                /\ (IsMspaint(J.cmds[i]) /\ ~J.cmds[i].ok /\ i < n) => IsRundll(J.cmds[i + 1])
            /\ mspaints <= Max(1, J.args.copies)
            /\ n <= 2 * Max(1, J.args.copies)
            /\ J.pc \in {"cleanup", "done"} =>
                 /\ mspaints = Max(1, J.args.copies)
                 /\ IsRundll(J.cmds[n]) \/ J.cmds[n].ok
            /\ J.rmCount > 0 => J.pc = "done" /\ J.rmCount = 1

\* a worker ended three rounds, both commands having failed in the first
C9_Witness ==
    \E j \in JobIds :
        /\ jobs[j].raw.Copies = Val(IntV(3))
        /\ jobs[j].pc = "done"
        /\ Len(jobs[j].cmds) >= 4
        /\ ~jobs[j].cmds[1].ok /\ ~jobs[j].cmds[2].ok

====
